---- MODULE Spec2Model ----
(***************************************************************************)
(* Model of the product-email server in main.go: the startup sequence of   *)
(* main, the CORS middleware, Handler.SendProductHandler and               *)
(* EmailService.SendProductEmail, with the mail provider and the HTTP      *)
(* clients as the environment.                                             *)
(***************************************************************************)
EXTENDS Integers, Sequences, FiniteSets, TLC

(* ------------------------------ bounds --------------------------------- *)

\* Number of HTTP requests the server receives in a run.
NumRequests == 2

\* Longest time, in seconds, a client may take to deliver the request body.
MaxBodyDelay == 2

\* Number of requests received in a run in which the wall clock is tracked.
MaxTimed == 1

Requests == 1..NumRequests

(* --------------------------- program constants ------------------------- *)

\* time.Second*10, in seconds
Timeout == 10

Subject == "Product Information"

NoErr == ""

\* Process environments after a successful godotenv.Load: all four variables
\* set, or only two of them set.
Environments ==
  { ("MAILGUN_DOMAIN" :> "acme.com" @@ "MAILGUN_API_KEY" :> "key-1" @@
     "MAILGUN_FROM_NAME" :> "Acme" @@ "MAILGUN_FROM_EMAIL" :> "sales"),
    ("MAILGUN_DOMAIN" :> "acme.com" @@ "MAILGUN_FROM_NAME" :> "Acme") }

\* os.Getenv: the value of the variable, or the empty string when it is unset.
Getenv(e, k) == IF k \in DOMAIN e THEN e[k] ELSE ""

NoConfig == [Domain |-> "?", ApiKey |-> "?", FromName |-> "?", FromEmail |-> "?"]

\* The Config literal of main.
LoadConfig(e) ==
  [Domain    |-> Getenv(e, "MAILGUN_DOMAIN"),
   ApiKey    |-> Getenv(e, "MAILGUN_API_KEY"),
   FromName  |-> Getenv(e, "MAILGUN_FROM_NAME"),
   FromEmail |-> Getenv(e, "MAILGUN_FROM_EMAIL")]

NoClient == [domain |-> "?", apiKey |-> "?"]

\* NewEmailService: the provider client is built from the domain and the key.
NewEmailService(cfg) ==
  [mg |-> [domain |-> cfg.Domain, apiKey |-> cfg.ApiKey], config |-> cfg]

NoService == [mg |-> NoClient, config |-> NoConfig]

(* ------------------------------ requests ------------------------------- *)

Methods == {"POST", "OPTIONS", "GET"}
Paths == {"/send-product", "/other"}

NoRequest == [method |-> "", path |-> ""]

\* JSON values of the two types the ProductEmail fields have.
Str(s) == [t |-> "string", s |-> s, n |-> 0]
Num(n) == [t |-> "number", s |-> "", n |-> n]

\* Request bodies: a body is empty, syntactically invalid, or a JSON object
\* given by its members.  Prices are in thousandths of a dollar.
NoBody == [syntax |-> "none", fields |-> <<>>]

Bodies ==
  { [syntax |-> "invalid", fields |-> <<>>],
    [syntax |-> "object",
     fields |-> ("product_name" :> Str("Widget") @@ "price" :> Str("9.99") @@
                 "description" :> Str("A widget") @@ "email" :> Str("a@b.com"))],
    [syntax |-> "object",
     fields |-> ("product_name" :> Str("Widget") @@ "price" :> Num(19999) @@
                 "description" :> Str("A widget") @@ "email" :> Str("a@b.com"))],
    [syntax |-> "object",
     fields |-> ("price" :> Num(0) @@ "email" :> Str(""))] }

\* The json tags of ProductEmail and the JSON type each field accepts.
FieldTypes ==
  ("product_name" :> "string" @@ "price" :> "number" @@
   "description" :> "string" @@ "email" :> "string")

ZeroProduct ==
  [ProductName |-> "", Price |-> 0, Description |-> "", RecipientEmail |-> ""]

StrField(b, k) == IF k \in DOMAIN b.fields THEN b.fields[k].s ELSE ""
NumField(b, k) == IF k \in DOMAIN b.fields THEN b.fields[k].n ELSE 0

\* c.BindJSON(&productData): an error for a body that is not a JSON object or
\* has a member of the wrong type; absent members keep their zero value.
BindJSON(b) ==
  IF b.syntax # "object"
    THEN [err |-> "invalid character", data |-> ZeroProduct]
  ELSE IF \E k \in DOMAIN b.fields \cap DOMAIN FieldTypes :
            b.fields[k].t # FieldTypes[k]
    THEN [err |-> "cannot unmarshal", data |-> ZeroProduct]
  ELSE [err |-> NoErr,
        data |-> [ProductName    |-> StrField(b, "product_name"),
                  Price          |-> NumField(b, "price"),
                  Description    |-> StrField(b, "description"),
                  RecipientEmail |-> StrField(b, "email")]]

\* %.2f of a price given in thousandths: rounded to cents, two decimals.
FormatPrice(p) ==
  LET cents == (p + 5) \div 10
      frac  == cents % 100
  IN  ToString(cents \div 100) \o "." \o
      (IF frac < 10 THEN "0" ELSE "") \o ToString(frac)

\* EmailService.formatProductEmail
formatProductEmail(data) ==
  "\nProduct Details:\n---------------\nName: " \o data.ProductName \o
  "\nPrice: $" \o FormatPrice(data.Price) \o
  "\nDescription: " \o data.Description \o "\n"

\* The sender line and the mailgun.NewMessage call of SendProductEmail.
NewMessage(svc, data) ==
  [from    |-> svc.config.FromName \o " <" \o svc.config.FromEmail \o "@" \o
               svc.config.Domain \o ">",
   subject |-> Subject,
   text    |-> formatProductEmail(data),
   to      |-> data.RecipientEmail]

(* ------------------------------ responses ------------------------------ *)

\* A response: the status, the headers, and the body, which is a JSON object
\* (a set of <<key, value>> members) or a plain text.
NoResponse == [status |-> 0, headers |-> {}, json |-> {}, text |-> ""]

\* A middleware that sets three of the four headers.
CORSHeadersNoMaxAge ==
  { <<"Access-Control-Allow-Origin", "http://localhost:5173">>,
    <<"Access-Control-Allow-Methods", "POST, OPTIONS">>,
    <<"Access-Control-Allow-Headers", "Content-Type">> }

\* The four c.Writer.Header().Set calls of the middleware.
CORSHeaders ==
  { <<"Access-Control-Allow-Origin", "http://localhost:5173">>,
    <<"Access-Control-Allow-Methods", "POST, OPTIONS">>,
    <<"Access-Control-Allow-Headers", "Content-Type">>,
    <<"Access-Control-Max-Age", "86400">> }

\* c.Writer.Header().Set: the header replaces any value set under its name.
SetHeaders(w, hs) ==
  [w EXCEPT !.headers =
     {h \in w.headers : \A n \in hs : n[1] # h[1]} \cup hs]

\* c.JSON(code, obj)
JSON(w, code, obj) == [w EXCEPT !.status = code, !.json = obj]

\* A middleware that lets OPTIONS through to the router.
MiddlewareAbortsNever(method) == FALSE

\* if c.Request.Method == "OPTIONS"
MiddlewareAborts(method) == method = "OPTIONS"

\* c.AbortWithStatus(204)
AbortWithStatus(w, code) == [w EXCEPT !.status = code]

\* r.POST("/send-product", ...): the only route of the router.
RouteMatches(rq) == rq.method = "POST" /\ rq.path = "/send-product"

\* The router's answer when no route matches.
NotFound(w) == [w EXCEPT !.status = 404, !.text = "404 page not found"]

\* A handler that goes on after a bind error.
HandlerRejectsNever(bind) == FALSE

\* if err := c.BindJSON(&productData); err != nil { ...; return }
HandlerRejects(bind) == bind.err # NoErr

BindErrorResponse(w) == JSON(w, 400, {<<"error", "Invalid request body">>})

\* A longer deadline, and a context derived from context.Background().
HandlerDeadlineLong == Timeout + 5

CtxParentBackground(c) == FALSE

\* context.WithTimeout(c.Request.Context(), time.Second*10): the lifetime of
\* the derived context, and whether it is cancelled with the request's.
HandlerDeadline == Timeout

CtxParentCancelled(c) == c # "no"

\* s.mg.Send(ctx, message) reports (mes, id, err): the status text first, the
\* message id second.
MgSend(report) == <<report.mes, report.id, report.err>>

\* A sender that submits the message twice.
SendProductEmailRetry(svc, data) == << NewMessage(svc, data), NewMessage(svc, data) >>

\* SendProductEmail: the provider submissions one invocation makes.
SendProductEmail(svc, data) == << NewMessage(svc, data) >>

\* An error exit that puts the provider's error in the body.
ErrorResponseLeaky(w, err) == JSON(w, 500, {<<"error", err>>})

\* if err != nil { c.JSON(500, ...); return }
ErrorResponse(w, err) == JSON(w, 500, {<<"error", "Failed to send email">>})

\* c.JSON(200, gin.H{"message": ..., "id": id, "response": resp})
SuccessResponse(w, resp, id) ==
  JSON(w, 200, { <<"message", "Email sent successfully">>,
                 <<"id", id>>, <<"response", resp>> })

\* A handler that takes the two strings in the other order.
RespondSwapped(w, ret) ==
  LET id   == ret[1]
      resp == ret[2]
      err  == ret[3]
  IN  IF err # NoErr THEN ErrorResponse(w, err) ELSE SuccessResponse(w, resp, id)

\* resp, id, err := h.emailService.SendProductEmail(ctx, productData) and the
\* two exits that follow it.
Respond(w, ret) ==
  LET resp == ret[1]
      id   == ret[2]
      err  == ret[3]
  IN  IF err # NoErr THEN ErrorResponse(w, err) ELSE SuccessResponse(w, resp, id)

\* A handler that keeps the return in one place shared by all invocations.
SharedReturn(reports, r) == MgSend(reports[1])

\* The locals resp, id, err of one handler invocation hold the return of that
\* invocation's own call.
OwnReturn(reports, r) == MgSend(reports[r])

(* --------------------------- the mail provider -------------------------- *)

NoReport == [mes |-> "", id |-> "", err |-> NoErr, called |-> FALSE]

\* What the provider reports for an accepted message ...
ProviderOK ==
  { [mes |-> "queued", id |-> "msg-1", err |-> NoErr, called |-> TRUE],
    [mes |-> "Queued. Thank you.", id |-> "msg-2", err |-> NoErr, called |-> TRUE] }

\* ... for a refused one or an unreachable provider ...
ProviderErrors ==
  { [mes |-> "", id |-> "", err |-> "401 Forbidden", called |-> TRUE],
    [mes |-> "", id |-> "", err |-> "dial tcp: no route to host", called |-> TRUE] }

\* ... and for a call abandoned because its context is done.
DeadlineExceeded ==
  [mes |-> "", id |-> "", err |-> "context deadline exceeded", called |-> TRUE]
Canceled ==
  [mes |-> "", id |-> "", err |-> "context canceled", called |-> TRUE]

(* -------------------------------- state -------------------------------- *)

VARIABLES
  clockOn,     \* whether the run tracks the wall clock
  mainPc,      \* position of main
  exitReason,  \* why the process exited: "none", "env", "listen"
  env,         \* the process environment
  config,      \* main's config
  service,     \* the EmailService (provider client and config)
  router,      \* whether the router, its middleware and its route are set up
  pc,          \* per request: "idle", "bind", "send", "done"
  req,         \* per request: method and path
  raw,         \* per request: the body the handler read
  data,        \* per request: productData
  cancelled,   \* per request: "no", or the phase in which the client left
  bodyDelay,   \* per request: seconds from receipt to the end of BindJSON
  ctxAge,      \* per request: seconds since the derived context was made
  ctxDeadline, \* per request: lifetime of the derived context, in seconds
  entered,     \* per request: whether SendProductHandler was entered
  sendCalls,   \* per request: invocations of SendProductEmail
  outbox,      \* per request: the messages submitted to the provider
  report,      \* per request: what the provider reported
  resp         \* per request: the response writer

startup == <<mainPc, exitReason, env, config, service, router>>
reqvars == <<pc, req, raw, data, cancelled, entered, sendCalls, outbox, report, resp>>
timers  == <<bodyDelay, ctxAge, ctxDeadline>>
vars    == <<clockOn, startup, reqvars, timers>>

InitState ==
  /\ mainPc = "load"
  /\ exitReason = "none"
  /\ env \in Environments
  /\ config = NoConfig
  /\ service = NoService
  /\ router = FALSE
  /\ pc = [r \in Requests |-> "idle"]
  /\ req = [r \in Requests |-> NoRequest]
  /\ raw = [r \in Requests |-> NoBody]
  /\ data = [r \in Requests |-> ZeroProduct]
  /\ cancelled = [r \in Requests |-> "no"]
  /\ bodyDelay = [r \in Requests |-> 0]
  /\ ctxAge = [r \in Requests |-> 0]
  /\ ctxDeadline = [r \in Requests |-> 0]
  /\ entered = [r \in Requests |-> FALSE]
  /\ sendCalls = [r \in Requests |-> 0]
  /\ outbox = [r \in Requests |-> <<>>]
  /\ report = [r \in Requests |-> NoReport]
  /\ resp = [r \in Requests |-> NoResponse]

Init == clockOn = FALSE /\ InitState

InitTimed == clockOn = TRUE /\ InitState

(* ------------------------------- startup ------------------------------- *)

\* A main that goes on after a failed load.
AfterLoadIgnoresError(ok) == "config"

\* if err := godotenv.Load(); err != nil { log.Fatal(...) }
AfterLoad(ok) == IF ok THEN "config" ELSE "exited"

LoadEnv ==
  /\ mainPc = "load"
  /\ \E ok \in BOOLEAN :
       /\ mainPc' = AfterLoad(ok)
       /\ exitReason' = IF ok THEN "none" ELSE "env"
  /\ UNCHANGED <<clockOn, env, config, service, router, reqvars, timers>>

ReadConfig ==
  /\ mainPc = "config"
  /\ config' = LoadConfig(env)
  /\ mainPc' = "service"
  /\ UNCHANGED <<clockOn, exitReason, env, service, router, reqvars, timers>>

BuildService ==
  /\ mainPc = "service"
  /\ service' = NewEmailService(config)
  /\ mainPc' = "router"
  /\ UNCHANGED <<clockOn, exitReason, env, config, router, reqvars, timers>>

\* NewHandler, gin.Default, r.Use and r.POST
SetupRouter ==
  /\ mainPc = "router"
  /\ router' = TRUE
  /\ mainPc' = "run"
  /\ UNCHANGED <<clockOn, exitReason, env, config, service, reqvars, timers>>

\* r.Run(":8080"): the server listens, or Run returns an error and main exits.
Run ==
  /\ mainPc = "run"
  /\ \E bound \in BOOLEAN :
       /\ mainPc' = IF bound THEN "listening" ELSE "exited"
       /\ exitReason' = IF bound THEN "none" ELSE "listen"
  /\ UNCHANGED <<clockOn, env, config, service, router, reqvars, timers>>

(* ------------------------------- requests ------------------------------ *)

Arrived == {q \in Requests : pc[q] # "idle"}

\* The middleware registered with r.Use, and the routing that c.Next() leads
\* to: the handler of the matching route, or the router's 404.
CORSMiddleware(r) ==
  /\ mainPc = "listening"
  /\ pc[r] = "idle"
  /\ \A q \in Requests : q < r => pc[q] # "idle"
  /\ clockOn => Cardinality(Arrived) < MaxTimed
  /\ \E m \in Methods, p \in Paths :
       LET rq == [method |-> m, path |-> p]
           w  == SetHeaders(resp[r], CORSHeaders)
       IN  /\ req' = [req EXCEPT ![r] = rq]
           /\ IF MiddlewareAborts(m)
                THEN /\ resp' = [resp EXCEPT ![r] = AbortWithStatus(w, 204)]
                     /\ pc' = [pc EXCEPT ![r] = "done"]
                     /\ UNCHANGED entered
              ELSE IF RouteMatches(rq)
                THEN /\ resp' = [resp EXCEPT ![r] = w]
                     /\ pc' = [pc EXCEPT ![r] = "bind"]
                     /\ entered' = [entered EXCEPT ![r] = TRUE]
              ELSE /\ resp' = [resp EXCEPT ![r] = NotFound(w)]
                   /\ pc' = [pc EXCEPT ![r] = "done"]
                   /\ UNCHANGED entered
  /\ UNCHANGED <<clockOn, startup, raw, data, cancelled, sendCalls, outbox,
                 report, timers>>

\* SendProductHandler up to the call of s.mg.Send: the body is read and
\* bound; on an error the handler answers 400 and returns, otherwise it
\* derives the context and calls SendProductEmail, which submits the message.
HandlerBind(r) ==
  /\ pc[r] = "bind"
  /\ \E b \in Bodies :
       LET bind == BindJSON(b)
       IN  /\ raw' = [raw EXCEPT ![r] = b]
           /\ IF HandlerRejects(bind)
                THEN /\ resp' = [resp EXCEPT ![r] = BindErrorResponse(resp[r])]
                     /\ pc' = [pc EXCEPT ![r] = "done"]
                     /\ UNCHANGED <<data, sendCalls, outbox, ctxDeadline>>
                ELSE /\ data' = [data EXCEPT ![r] = bind.data]
                     /\ ctxDeadline' = [ctxDeadline EXCEPT ![r] = HandlerDeadline]
                     /\ sendCalls' = [sendCalls EXCEPT ![r] = @ + 1]
                     /\ outbox' = [outbox EXCEPT
                                     ![r] = @ \o SendProductEmail(service, bind.data)]
                     /\ pc' = [pc EXCEPT ![r] = "send"]
                     /\ UNCHANGED resp
  /\ UNCHANGED <<clockOn, startup, req, cancelled, entered, report,
                 bodyDelay, ctxAge>>

\* The client closes the connection: the request's context is cancelled.
ClientCancel(r) ==
  /\ pc[r] \in {"bind", "send"}
  /\ cancelled[r] = "no"
  /\ cancelled' = [cancelled EXCEPT ![r] = pc[r]]
  /\ UNCHANGED <<clockOn, startup, pc, req, raw, data, entered, sendCalls,
                 outbox, report, resp, timers>>

\* ctx.Done() of the context handed to the provider call.
CtxExpired(r) == clockOn /\ ctxAge[r] >= ctxDeadline[r]

CtxDone(r) == CtxParentCancelled(cancelled[r]) \/ CtxExpired(r)

\* The provider call returns and the handler writes its response.
Finish(r, rep) ==
  /\ pc[r] = "send"
  /\ report' = [report EXCEPT ![r] = rep]
  /\ resp' = [resp EXCEPT ![r] = Respond(resp[r], OwnReturn(report', r))]
  /\ pc' = [pc EXCEPT ![r] = "done"]
  /\ UNCHANGED <<clockOn, startup, req, raw, data, cancelled, entered,
                 sendCalls, outbox, timers>>

ProviderSucceeds(r) ==
  /\ pc[r] = "send"
  /\ ~CtxDone(r)
  /\ \E rep \in ProviderOK : Finish(r, rep)

ProviderFails(r) ==
  /\ pc[r] = "send"
  /\ ~CtxDone(r)
  /\ \E rep \in ProviderErrors : Finish(r, rep)

\* The 10 seconds of the derived context are over; when the clock is not
\* tracked this may be at any moment of the call.
DeadlineExpires(r) ==
  /\ pc[r] = "send"
  /\ ~CtxParentCancelled(cancelled[r])
  /\ clockOn => CtxExpired(r)
  /\ Finish(r, DeadlineExceeded)

\* The request's context was cancelled, and the derived one with it.
CancelAborts(r) ==
  /\ pc[r] = "send"
  /\ CtxParentCancelled(cancelled[r])
  /\ Finish(r, Canceled)

\* One second passes.  A call whose context is done returns before the next.
Tick ==
  /\ clockOn
  /\ \E r \in Requests : pc[r] \in {"bind", "send"}
  /\ \A r \in Requests :
       /\ pc[r] = "bind" => bodyDelay[r] < MaxBodyDelay
       /\ pc[r] = "send" => ctxAge[r] < ctxDeadline[r]
  /\ bodyDelay' = [r \in Requests |->
                     IF pc[r] = "bind" THEN bodyDelay[r] + 1 ELSE bodyDelay[r]]
  /\ ctxAge' = [r \in Requests |->
                  IF pc[r] = "send" THEN ctxAge[r] + 1 ELSE ctxAge[r]]
  /\ UNCHANGED <<clockOn, startup, reqvars, ctxDeadline>>

Next ==
  \/ LoadEnv
  \/ ReadConfig
  \/ BuildService
  \/ SetupRouter
  \/ Run
  \/ \E r \in Requests : CORSMiddleware(r)
  \/ \E r \in Requests : HandlerBind(r)
  \/ \E r \in Requests : ClientCancel(r)
  \/ \E r \in Requests : ProviderSucceeds(r)
  \/ \E r \in Requests : ProviderFails(r)
  \/ \E r \in Requests : DeadlineExpires(r)
  \/ \E r \in Requests : CancelAborts(r)

NextTimed == Next \/ Tick

Spec == Init /\ [][Next]_vars

SpecTimed == InitTimed /\ [][NextTimed]_vars

TypeOK ==
  /\ clockOn \in BOOLEAN
  /\ mainPc \in {"load", "config", "service", "router", "run", "listening", "exited"}
  /\ exitReason \in {"none", "env", "listen"}
  /\ env \in Environments
  /\ router \in BOOLEAN
  /\ \A r \in Requests :
       /\ pc[r] \in {"idle", "bind", "send", "done"}
       /\ cancelled[r] \in {"no", "bind", "send"}
       /\ bodyDelay[r] \in 0..MaxBodyDelay
       /\ ctxAge[r] \in 0..Timeout
       /\ sendCalls[r] \in 0..1
       /\ resp[r].status \in {0, 200, 204, 400, 404, 500}

(* ------------------------------- properties ---------------------------- *)

BodyRead(r) == raw[r].syntax # "none"

InvalidBody == {<<"error", "Invalid request body">>}
SendFailed == {<<"error", "Failed to send email">>}

\* C1: a POST /send-product whose body does not bind to ProductEmail is
\* answered 400 {"error": "Invalid request body"}, and neither
\* SendProductEmail nor the provider is invoked for it.
C1_BindFailureIs400 ==
  \A r \in Requests :
    (BodyRead(r) /\ BindJSON(raw[r]).err # NoErr) =>
      /\ pc[r] = "done"
      /\ resp[r].status = 400
      /\ resp[r].json = InvalidBody
      /\ resp[r].text = ""
      /\ sendCalls[r] = 0
      /\ outbox[r] = <<>>
      /\ ~report[r].called

C1_Witness ==
  \E r \in Requests :
    /\ pc[r] = "done"
    /\ raw[r].syntax = "object"
    /\ BindJSON(raw[r]).err # NoErr
    /\ resp[r].status = 400

\* C2: a POST /send-product whose body binds, zero values included, invokes
\* SendProductEmail exactly once, which submits exactly one message to the
\* provider; when the provider accepts it the status is 200.
C2_OneSendPerValidBody ==
  \A r \in Requests :
    (BodyRead(r) /\ BindJSON(raw[r]).err = NoErr) =>
      /\ sendCalls[r] = 1
      /\ Len(outbox[r]) = 1
      /\ (pc[r] = "done" /\ report[r].err = NoErr) => resp[r].status = 200

C2_Witness ==
  \E r \in Requests :
    /\ pc[r] = "done"
    /\ BodyRead(r)
    /\ data[r].ProductName = "" /\ data[r].Price = 0
    /\ Len(outbox[r]) = 1
    /\ report[r] \in ProviderOK
    /\ resp[r].status = 200

\* C3: when the sender returns an error the response is 500 with exactly
\* {"error": "Failed to send email"}; the provider's error is no part of it
\* and the status is not 200.
C3_SendErrorIs500 ==
  \A r \in Requests :
    (pc[r] = "done" /\ report[r].called /\ report[r].err # NoErr) =>
      /\ resp[r].status = 500
      /\ resp[r].json = SendFailed
      /\ resp[r].text = ""
      /\ \A m \in resp[r].json : m[2] # report[r].err

C3_Witness ==
  \E r \in Requests :
    /\ pc[r] = "done"
    /\ report[r] \in ProviderErrors
    /\ resp[r].status = 500

\* C4: on a successful send the 200 body is {"message": "Email sent
\* successfully", "id": I, "response": R} with I the provider's message id
\* and R the provider's status text.
C4_IdAndResponseCarried ==
  \A r \in Requests :
    (pc[r] = "done" /\ report[r].called /\ report[r].err = NoErr) =>
      /\ resp[r].status = 200
      /\ resp[r].json = { <<"message", "Email sent successfully">>,
                          <<"id", report[r].id>>,
                          <<"response", report[r].mes>> }

C4_Witness ==
  \E r \in Requests :
    /\ pc[r] = "done"
    /\ report[r].called /\ report[r].id = "msg-1" /\ report[r].mes = "queued"
    /\ <<"id", "msg-1">> \in resp[r].json
    /\ <<"response", "queued">> \in resp[r].json

\* C5: an OPTIONS request, on any path, is answered 204 with an empty body
\* by the middleware; the handler is not entered and nothing is sent.
C5_OptionsIs204 ==
  \A r \in Requests :
    req[r].method = "OPTIONS" =>
      /\ pc[r] = "done"
      /\ resp[r].status = 204
      /\ resp[r].json = {} /\ resp[r].text = ""
      /\ ~entered[r]
      /\ sendCalls[r] = 0
      /\ outbox[r] = <<>>
      /\ ~report[r].called

C5_Witness ==
  \E r \in Requests :
    /\ req[r] = [method |-> "OPTIONS", path |-> "/send-product"]
    /\ resp[r].status = 204

HasHeader(w, name, value) ==
  /\ <<name, value>> \in w.headers
  /\ \A h \in w.headers : h[1] = name => h[2] = value

\* C6 as stated: every response carries Access-Control-Allow-Origin,
\* -Allow-Methods, -Allow-Headers and Access-Control-Allow-Max-Age: 86400.
C6_Original ==
  \A r \in Requests :
    resp[r].status # 0 =>
      /\ HasHeader(resp[r], "Access-Control-Allow-Origin", "http://localhost:5173")
      /\ HasHeader(resp[r], "Access-Control-Allow-Methods", "POST, OPTIONS")
      /\ HasHeader(resp[r], "Access-Control-Allow-Headers", "Content-Type")
      /\ HasHeader(resp[r], "Access-Control-Allow-Max-Age", "86400")

\* C6 (amended): every response the server produces carries
\* Access-Control-Allow-Origin: http://localhost:5173,
\* Access-Control-Allow-Methods: POST, OPTIONS,
\* Access-Control-Allow-Headers: Content-Type and
\* Access-Control-Max-Age: 86400.
C6_CORSHeadersOnEveryResponse ==
  \A r \in Requests :
    resp[r].status # 0 =>
      /\ HasHeader(resp[r], "Access-Control-Allow-Origin", "http://localhost:5173")
      /\ HasHeader(resp[r], "Access-Control-Allow-Methods", "POST, OPTIONS")
      /\ HasHeader(resp[r], "Access-Control-Allow-Headers", "Content-Type")
      /\ HasHeader(resp[r], "Access-Control-Max-Age", "86400")

C6_Witness ==
  /\ {resp[r].status : r \in Requests} = {200, 400}
  /\ \A r \in Requests : Cardinality(resp[r].headers) = 4

\* C7 as stated: a provider call is never pending more than 10 seconds after
\* the request was received, and a call not completed by then is answered 500.
C7_Original ==
  \A r \in Requests :
    /\ pc[r] = "send" => bodyDelay[r] + ctxAge[r] <= Timeout
    /\ (pc[r] = "done" /\ report[r].called /\ bodyDelay[r] + ctxAge[r] >= Timeout)
         => resp[r].status = 500

\* C7 (amended): a provider call is never pending more than 10 seconds after
\* the handler derived the deadline context, which it does once the body is
\* read and bound; a call not completed within those 10 seconds is aborted
\* with the context's deadline error and answered 500.
C7_DeadlineFromContext ==
  \A r \in Requests :
    /\ pc[r] = "send" => ctxAge[r] <= Timeout
    /\ (pc[r] = "done" /\ report[r].called /\ ctxAge[r] >= Timeout) =>
         /\ report[r] \in {DeadlineExceeded, Canceled}
         /\ resp[r].status = 500
         /\ resp[r].json = SendFailed

C7_Witness ==
  \E r \in Requests :
    /\ pc[r] = "done"
    /\ bodyDelay[r] > 0
    /\ ctxAge[r] = Timeout
    /\ report[r] = DeadlineExceeded
    /\ resp[r].status = 500

\* C8: a request cancelled while the provider call is in flight has that call
\* aborted with the context's cancellation error and is answered on the 500
\* path; no cancelled request is answered 200.
C8_CancelIs500 ==
  \A r \in Requests :
    /\ (cancelled[r] = "send" /\ pc[r] = "done") =>
         /\ report[r] = Canceled
         /\ resp[r].status = 500
         /\ resp[r].json = SendFailed
    /\ cancelled[r] # "no" => resp[r].status # 200

C8_Witness ==
  \E r \in Requests :
    /\ cancelled[r] = "send"
    /\ pc[r] = "done"
    /\ report[r] = Canceled
    /\ resp[r].status = 500

\* C9: when loading the environment file fails the process exits before the
\* configuration is read, the service and the router are built and the server
\* listens, and no request is served; when it succeeds, unset variables are
\* empty strings in the configuration and nothing before r.Run stops startup.
C9_FatalOnEnvFailure ==
  /\ exitReason = "env" =>
       /\ mainPc = "exited"
       /\ config = NoConfig
       /\ service = NoService
       /\ ~router
       /\ \A r \in Requests : pc[r] = "idle" /\ resp[r] = NoResponse
  /\ (\E r \in Requests : pc[r] # "idle") => mainPc = "listening"
  /\ mainPc \in {"service", "router", "run", "listening"} =>
       /\ config.Domain = (IF "MAILGUN_DOMAIN" \in DOMAIN env
                             THEN env["MAILGUN_DOMAIN"] ELSE "")
       /\ config.ApiKey = (IF "MAILGUN_API_KEY" \in DOMAIN env
                             THEN env["MAILGUN_API_KEY"] ELSE "")
       /\ config.FromName = (IF "MAILGUN_FROM_NAME" \in DOMAIN env
                               THEN env["MAILGUN_FROM_NAME"] ELSE "")
       /\ config.FromEmail = (IF "MAILGUN_FROM_EMAIL" \in DOMAIN env
                                THEN env["MAILGUN_FROM_EMAIL"] ELSE "")
  /\ mainPc = "exited" => exitReason \in {"env", "listen"}
  /\ exitReason = "listen" => router /\ config # NoConfig

C9_Witness == mainPc = "exited" /\ exitReason = "env"

\* The status and body a handled request must have, from its own body and
\* its own provider report.
OwnOutcome(r) ==
  IF BindJSON(raw[r]).err # NoErr
    THEN resp[r].status = 400 /\ resp[r].json = InvalidBody
  ELSE IF report[r].err # NoErr
    THEN resp[r].status = 500 /\ resp[r].json = SendFailed
  ELSE /\ resp[r].status = 200
       /\ resp[r].json = { <<"message", "Email sent successfully">>,
                           <<"id", report[r].id>>,
                           <<"response", report[r].mes>> }

\* C10: once the server listens, the configuration and the provider client
\* are never written; a step changes the response, the payload and the
\* provider report of the one request that takes it only, and a request's
\* status and body are those its own payload and provider report determine.
C10_RequestsIsolated ==
  [][ /\ mainPc = "listening" =>
           /\ config' = config
           /\ service' = service
      /\ \A r \in Requests :
           /\ pc'[r] = pc[r] =>
                /\ resp'[r] = resp[r]
                /\ report'[r] = report[r]
                /\ data'[r] = data[r]
                /\ raw'[r] = raw[r]
           /\ pc[r] = "done" => pc'[r] = "done"
           /\ (pc'[r] = "done" /\ entered'[r]) => OwnOutcome(r)'
    ]_vars

C10_Witness ==
  \E r, q \in Requests :
    /\ pc[r] = "done" /\ pc[q] = "done"
    /\ resp[r].status = 500 /\ report[r] \in ProviderErrors
    /\ resp[q].status = 200 /\ report[q] \in ProviderOK
====
